---- MODULE Spec2Model ----
(***************************************************************************)
(* Model of kapitan/inventory/inventory.py: the Inventory base class.      *)
(*                                                                         *)
(* Strings that are file names, relative paths and target names are        *)
(* modelled structurally.  An "atom" is a non-empty string without '.' and *)
(* without the path separator.  A path component (a directory name or a    *)
(* file's basename) is the sequence of atoms between its dots, so          *)
(* "a.yml" is <<"a","yml">> and a directory called "x.y" is <<"x","y">>.   *)
(* A relative path is the sequence of its components, so "x/y/a.yml" is    *)
(* << <<"x">>, <<"y">>, <<"a","yml">> >>.  A target name is the sequence   *)
(* of atoms between its dots, so "x.y.a" is <<"x","y","a">>.  Two strings  *)
(* are equal exactly when their structures are equal.                      *)
(***************************************************************************)
EXTENDS Integers, Sequences, FiniteSets, TLC

VARIABLES
    walk,                 \* what os.walk(self.targets_path) yields, in order
    compose_target_name,  \* Inventory.compose_target_name
    initialised,          \* Inventory.initialised
    targets,              \* Inventory.targets: the dict, in insertion order
    last,                 \* the call the caller is looking at, and what it did
    submitted,            \* per record, how often render_targets was handed it
    callers               \* concurrent callers: where each is in its call

vars == <<walk, compose_target_name, initialised, targets, last, submitted, callers>>

----------------------------------------------------------------------------
(* Bounds of the model *)

\* the targets tree holds at most this many files
MaxFiles == 2

\* the callers that use one inventory at the same time
NumCallers == 2

\* a record's submissions to the backend are counted up to this many
MaxSubmissions == 2

\* a requested target_names list has at most this many entries
MaxNames == 2

----------------------------------------------------------------------------
(* Sequences and sets *)

Range(s) == {s[i] : i \in DOMAIN s}

Perms(S) ==
    {s \in [1..Cardinality(S) -> S] : \A i, j \in 1..Cardinality(S) : s[i] = s[j] => i = j}

SeqsUpTo(S, n) == UNION {[1..k -> S] : k \in 0..n}

IsPrefix(p, q) == Len(p) <= Len(q) /\ SubSeq(q, 1, Len(p)) = p

Front(s) == SubSeq(s, 1, Len(s) - 1)

Last(s) == s[Len(s)]

RECURSIVE Flatten(_)
Flatten(ss) == IF ss = <<>> THEN <<>> ELSE Head(ss) \o Flatten(Tail(ss))

----------------------------------------------------------------------------
(* The targets tree *)

\* the files a targets tree may hold, as relative paths
CandidateFiles ==
    { << <<"a", "yml">> >>,                      \* a.yml
      << <<"a", "yaml">> >>,                     \* a.yaml
      << <<"a", "txt">> >>,                      \* a.txt
      << <<"x">>, <<"a", "yml">> >>,             \* x/a.yml
      << <<"x">>, <<"bb", "yml">> >>,            \* x/bb.yml
      << <<"x">>, <<"y">>, <<"a", "yml">> >>,    \* x/y/a.yml
      << <<"x", "y">>, <<"a", "yml">> >> }       \* x.y/a.yml

DirOf(path) == Front(path)

BaseOf(path) == Last(path)

\* every directory of a tree holding the files fs: the root and each ancestor
DirsOf(fs) == {<<>>} \cup UNION { {SubSeq(p, 1, k) : k \in 1..(Len(p) - 1)} : p \in fs }

\* os.walk is top-down and depth-first: a directory comes before everything
\* below it, and its subtree is listed before the next sibling starts
IsPreorder(ds) ==
    /\ ds[1] = <<>>
    /\ \A i, j, k \in DOMAIN ds :
          (i < j /\ j < k /\ IsPrefix(ds[i], ds[k])) => IsPrefix(ds[i], ds[j])
    /\ \A i, j \in DOMAIN ds : (IsPrefix(ds[i], ds[j]) /\ ds[i] # ds[j]) => i < j

\* the basenames of the files of fs in directory d, in the listing order fo
RECURSIVE FilesIn(_, _, _)
FilesIn(d, fo, i) ==
    IF i > Len(fo) THEN <<>>
    ELSE (IF DirOf(fo[i]) = d THEN <<BaseOf(fo[i])>> ELSE <<>>) \o FilesIn(d, fo, i + 1)

\* os.walk(top): one (root, files) entry per directory; the listing order of
\* directories and of files is the file system's
WalkOf(ds, fo) == [i \in DOMAIN ds |-> [root |-> ds[i], files |-> FilesIn(ds[i], fo, 1)]]

Walks ==
    {<<>>} \cup          \* targets_path does not exist: os.walk yields nothing
    UNION { {WalkOf(ds, fo) : ds \in {d \in Perms(DirsOf(fs)) : IsPreorder(d)}, fo \in Perms(fs)}
            : fs \in {s \in SUBSET CandidateFiles : Cardinality(s) <= MaxFiles} }

\* os.path.relpath(os.path.join(root, file), self.targets_path)
relpath(root, file) == Append(root, file)

\* the relative paths of all files in the tree
FilesOfWalk(w) ==
    UNION { {relpath(w[i].root, w[i].files[j]) : j \in DOMAIN w[i].files} : i \in DOMAIN w }

----------------------------------------------------------------------------
(* Names and extensions *)

\* os.path.splitext on a basename: the extension starts at the last dot,
\* unless only dots come before it; ext is <<>> for "" and <<e>> for "." e
splitext(base) ==
    IF Len(base) >= 2 /\ \E i \in 1..(Len(base) - 1) : base[i] # ""
    THEN [root |-> Front(base), ext |-> <<Last(base)>>]
    ELSE [root |-> base, ext |-> <<>>]

\* the extensions initialise() accepts: (".yml", ".yaml")
YamlExts == {<<"yml">>, <<"yaml">>}

\* the mutant: the directories are left out of the composed name
ComposedName_Basename(path) == splitext(BaseOf(path)).root

\* compose_target_name: splitext(path)[0].replace(os.sep, ".")
ComposedName(path) == Flatten(DirOf(path)) \o splitext(BaseOf(path)).root

\* otherwise: splitext(file)[0]
CompactName(path) == splitext(BaseOf(path)).root

NameOf(compose, path) == IF compose THEN ComposedName(path) ELSE CompactName(path)

ExtOf(path) == splitext(BaseOf(path)).ext

\* the mutant: the extension filter lets every file through
Accepted_Any(path) == TRUE

\* not (ext not in (".yml", ".yaml"))
Accepted(path) == ExtOf(path) \in YamlExts

AcceptedFiles(w) == {p \in FilesOfWalk(w) : Accepted(p)}

\* number of characters of an atom
AtomLen(a) ==
    CASE a \in {"a", "x", "y"} -> 1
      [] a = "bb" -> 2
      [] a \in {"yml", "txt"} -> 3
      [] a = "yaml" -> 4
      [] OTHER -> 7      \* "missing"

\* len() of a target name: its atoms and the dots between them
RECURSIVE StrLen(_)
StrLen(name) ==
    IF name = <<>> THEN 0
    ELSE AtomLen(Head(name)) + (IF Len(name) > 1 THEN 1 ELSE 0) + StrLen(Tail(name))

----------------------------------------------------------------------------
(* InventoryTarget and the targets dict *)

\* parameters is a dict, modelled by its set of keys; the others are lists
InventoryTarget(name, path) ==
    [name |-> name, path |-> path, parameters |-> {},
     classes |-> <<>>, applications |-> <<>>, exports |-> <<>>]

\* a dict is a sequence of records with distinct names, in insertion order
Keys(d) == {d[i].name : i \in DOMAIN d}

Has(d, name) == name \in Keys(d)

Get(d, name) == d[CHOOSE i \in DOMAIN d : d[i].name = name]

\* d[rec.name] = rec: replaces the value of an existing key, else appends
DictSet(d, rec) ==
    IF Has(d, rec.name)
    THEN [i \in DOMAIN d |-> IF d[i].name = rec.name THEN rec ELSE d[i]]
    ELSE Append(d, rec)

\* not target.parameters
Unrendered(rec) == rec.parameters = {}

----------------------------------------------------------------------------
(* initialise *)

NoConflict == [name |-> <<>>, path |-> <<>>, other |-> <<>>]

\* the mutant: the duplicate check never fires
ConflictingNever(d, name) == FALSE

\* if self.targets.get(target.name): an InventoryTarget is always truthy
Conflicting(d, name) == Has(d, name)

RECURSIVE ScanFiles(_, _, _, _, _)
RECURSIVE ScanFile(_, _, _, _, _, _)
RECURSIVE Register(_, _, _, _, _, _)
RECURSIVE ScanWalk(_, _, _, _, _)
RECURSIVE ScanDir(_, _, _, _, _)

\* the duplicate check and the assignment self.targets[target.name] = target;
\* `assigned` lists the assignments the scan made, in order
Register(compose, root, files, i, d, target) ==
    IF Conflicting(d, target.name)
    THEN [targets |-> d, raised |-> TRUE,
          conflict |-> [name |-> target.name, path |-> target.path,
                        other |-> Get(d, target.name).path],
          assigned |-> <<>>]
    ELSE [ScanFiles(compose, root, files, i + 1, DictSet(d, target))
            EXCEPT !.assigned = <<[name |-> target.name, path |-> target.path]>> \o @]

\* one file of the inner loop: the extension filter, then the record
ScanFile(compose, root, files, i, d, path) ==
    IF ~Accepted(path) THEN ScanFiles(compose, root, files, i + 1, d)
    ELSE Register(compose, root, files, i, d, InventoryTarget(NameOf(compose, path), path))

\* the inner loop: for file in files
ScanFiles(compose, root, files, i, d) ==
    IF i > Len(files)
    THEN [targets |-> d, raised |-> FALSE, conflict |-> NoConflict, assigned |-> <<>>]
    ELSE ScanFile(compose, root, files, i, d, relpath(root, files[i]))

\* one directory of the outer loop, r being what its inner loop did: the
\* flag is set at the end of each directory's iteration
ScanDir(compose, w, k, init, r) ==
    IF r.raised
    THEN [targets |-> r.targets, initialised |-> init, raised |-> TRUE,
          conflict |-> r.conflict, assigned |-> r.assigned]
    ELSE [ScanWalk(compose, w, k + 1, r.targets, TRUE) EXCEPT !.assigned = r.assigned \o @]

\* the outer loop: for root, dirs, files in os.walk(self.targets_path)
ScanWalk(compose, w, k, d, init) ==
    IF k > Len(w)
    THEN [targets |-> d, initialised |-> init, raised |-> FALSE, conflict |-> NoConflict,
          assigned |-> <<>>]
    ELSE ScanDir(compose, w, k, init, ScanFiles(compose, w[k].root, w[k].files, 1, d))

\* what initialise() did when r is what its scan did: return self.initialised
Scanned(r) ==
    [targets |-> r.targets, initialised |-> r.initialised, scanned |-> TRUE,
     raised |-> r.raised, conflict |-> r.conflict, assigned |-> r.assigned,
     ret |-> r.initialised]

\* no scan is made: self is left as it is
NoScan(d, init) ==
    [targets |-> d, initialised |-> init, scanned |-> FALSE,
     raised |-> FALSE, conflict |-> NoConflict, assigned |-> <<>>, ret |-> init]

\* the mutant: the scan runs again although the flag is set
initialise_Rescan(compose, w, d, init) == Scanned(ScanWalk(compose, w, 1, d, init))

\* Inventory.initialise(): the new fields of self, whether it raised, and
\* the value returned
initialise(compose, w, d, init) ==
    IF ~init
    THEN Scanned(ScanWalk(compose, w, 1, d, init))
    ELSE NoScan(d, init)

----------------------------------------------------------------------------
(* render_targets: the backend *)

\* what a render may write into one record; a render may leave parameters empty
RenderOutcomes ==
    { [parameters |-> {"k"}, classes |-> <<"c">>, applications |-> <<"app">>, exports |-> <<"e">>],
      [parameters |-> {}, classes |-> <<"c">>, applications |-> <<>>, exports |-> <<>>] }

\* the ways one render_targets call on a batch may go: it mutates the first
\* `done` records of the batch and then returns, or fails with its own error
Behaviours(batch) ==
    IF batch = <<>> THEN {[fail |-> FALSE, done |-> 0, out |-> <<>>]}
    ELSE {b \in UNION { [fail : BOOLEAN, done : {n}, out : [1..n -> RenderOutcomes]]
                        : n \in 0..Len(batch) } : b.fail \/ b.done = Len(batch)}

Mutate(rec, o) ==
    [rec EXCEPT !.parameters = o.parameters, !.classes = o.classes,
                !.applications = o.applications, !.exports = o.exports]

\* render_targets(targets, ignore_class_notfound): records are mutated in place
render_targets(d, batch, b) ==
    [targets |-> [i \in DOMAIN d |->
                     IF \E j \in 1..b.done : batch[j] = d[i].name
                     THEN Mutate(d[i], b.out[CHOOSE j \in 1..b.done : batch[j] = d[i].name])
                     ELSE d[i]],
     raised |-> b.fail]

----------------------------------------------------------------------------
(* get_targets *)

\* the keys of a dict built from the list names, in insertion order
RECURSIVE Dedup(_, _)
Dedup(names, seen) ==
    IF names = <<>> THEN <<>>
    ELSE IF Head(names) \in seen THEN Dedup(Tail(names), seen)
         ELSE <<Head(names)>> \o Dedup(Tail(names), seen \cup {Head(names)})

KeySeq(d) == [i \in DOMAIN d |-> d[i].name]

\* the mutant: the message lists every requested name
MissingAllRequested(d, names) == Range(names)

\* set(target_names) - set(self.targets)
Missing(d, names) == Range(names) \ Keys(d)

\* name resolution: the keys of the local dict `targets`, or the error.  A
\* KeyError in the comprehension leaves the local dict as initialised: {}
Resolve(d, names, ignore) ==
    IF names = <<>> THEN [raised |-> FALSE, missing |-> {}, selected |-> KeySeq(d)]
    ELSE IF \A i \in DOMAIN names : Has(d, names[i])
         THEN [raised |-> FALSE, missing |-> {}, selected |-> Dedup(names, {})]
         ELSE IF ~ignore
              THEN [raised |-> TRUE, missing |-> Missing(d, names), selected |-> <<>>]
              ELSE [raised |-> FALSE, missing |-> {}, selected |-> <<>>]

\* the mutant: every selected record is rendered again
ToRenderAll(d, selected) == selected

\* targets_to_render: the selected records whose parameters are empty
RECURSIVE ToRender(_, _)
ToRender(d, selected) ==
    IF selected = <<>> THEN <<>>
    ELSE (IF Unrendered(Get(d, Head(selected))) THEN <<Head(selected)>> ELSE <<>>)
         \o ToRender(d, Tail(selected))

\* the mutant: discovery is run again whenever the flag is not set
Discover_WhenNotInitialised(compose, w, d, init) ==
    IF ~init THEN initialise(compose, w, d, init)
    ELSE NoScan(d, init)

\* if not self.targets: self.initialise()
Discover(compose, w, d, init) ==
    IF d = <<>> THEN initialise(compose, w, d, init)
    ELSE NoScan(d, init)

RetNone == [kind |-> "none", bool |-> FALSE, dict |-> <<>>, parameters |-> {}]

RetBool(v) == [RetNone EXCEPT !.kind = "bool", !.bool = v]

RetDict(d) == [RetNone EXCEPT !.kind = "dict", !.dict = d]

RetTarget(rec) == [RetNone EXCEPT !.kind = "target", !.dict = <<rec>>]

RetParameters(ps) == [RetNone EXCEPT !.kind = "parameters", !.parameters = ps]

\* what a call did: the new fields of self (targets, initialised); whether
\* discovery scanned and what it assigned; how the call ended (status, and
\* the conflict or the missing names of an InventoryError); whether it
\* reached name resolution, with the registry it resolved against (pre) and
\* the keys of its local dict (selected); targets_to_render (batch) and each
\* list render_targets was called with (batches); the value returned (ret)
Outcome(disc) ==
    [targets |-> disc.targets, initialised |-> disc.initialised,
     scanned |-> disc.scanned, assigned |-> disc.assigned,
     status |-> IF disc.raised THEN "InventoryError" ELSE "ok",
     conflict |-> disc.conflict, missing |-> {},
     resolved |-> FALSE, pre |-> <<>>, selected |-> <<>>,
     batch |-> <<>>, batches |-> <<>>,
     ret |-> IF disc.raised THEN RetNone ELSE RetBool(disc.ret)]

\* the mutant: the whole registry is rendered before the missing names are
\* reported
Select_RenderFirst(o, res) ==
    IF res.raised
    THEN [o EXCEPT !.status = "InventoryError", !.missing = res.missing,
                   !.resolved = TRUE, !.pre = o.targets, !.ret = RetNone,
                   !.batches = <<KeySeq(o.targets)>>,
                   !.targets = [i \in DOMAIN o.targets |->
                                   [o.targets[i] EXCEPT !.classes = <<"c">>]]]
    ELSE [o EXCEPT !.resolved = TRUE, !.pre = o.targets, !.selected = res.selected,
                   !.batch = ToRender(o.targets, res.selected), !.ret = RetNone]

\* lines 99-110 once discovery has not raised: res is the name resolution
Select(o, res) ==
    IF res.raised
    THEN [o EXCEPT !.status = "InventoryError", !.missing = res.missing,
                   !.resolved = TRUE, !.pre = o.targets, !.ret = RetNone]
    ELSE [o EXCEPT !.resolved = TRUE, !.pre = o.targets, !.selected = res.selected,
                   !.batch = ToRender(o.targets, res.selected), !.ret = RetNone]

\* lines 93-110: discovery, name resolution and targets_to_render
Lookup(o, names, ignore) ==
    IF o.status # "ok" THEN [o EXCEPT !.ret = RetNone]
    ELSE Select(o, Resolve(o.targets, names, ignore))

\* the mutant: the local dict of selected records is returned
Returned_Selected(d, selected) == [i \in DOMAIN selected |-> Get(d, selected[i])]

\* return self.targets
Returned(d, selected) == d

\* lines 112-115 when render_targets was called and did rnd
AfterRender(o, rnd) ==
    IF rnd.raised
    THEN [o EXCEPT !.targets = rnd.targets, !.status = "RenderError", !.batches = <<o.batch>>]
    ELSE [o EXCEPT !.targets = rnd.targets, !.batches = <<o.batch>>,
                   !.ret = RetDict(Returned(rnd.targets, o.selected))]

\* lines 112-115: if targets_to_render: self.render_targets(...); return self.targets
Render(o, b) ==
    IF o.status # "ok" THEN o
    ELSE IF o.batch = <<>> THEN [o EXCEPT !.ret = RetDict(Returned(o.targets, o.selected))]
    ELSE AfterRender(o, render_targets(o.targets, o.batch, b))

\* the batch a get_targets call hands to render_targets, <<>> when it makes
\* no call
BatchOf(compose, w, d, init, names, ignore) ==
    Lookup(Outcome(Discover(compose, w, d, init)), names, ignore).batch

\* Inventory.get_targets(target_names, ignore_class_not_found), with b the
\* way the backend behaves if it is called
get_targets(compose, w, d, init, names, ignore, b) ==
    Render(Lookup(Outcome(Discover(compose, w, d, init)), names, ignore), b)

\* the mutant: a name that is not in the dict gives an empty result
Index_Optional(r, name) ==
    IF r.status # "ok" THEN r
    ELSE IF ~Has(r.ret.dict, name) THEN [r EXCEPT !.ret = RetNone]
    ELSE [r EXCEPT !.ret = RetTarget(Get(r.ret.dict, name))]

\* [target_name] on the dict get_targets returned
Index(r, name) ==
    IF r.status # "ok" THEN r
    ELSE IF ~Has(r.ret.dict, name) THEN [r EXCEPT !.status = "KeyError", !.ret = RetNone]
    ELSE [r EXCEPT !.ret = RetTarget(Get(r.ret.dict, name))]

\* Inventory.get_target(target_name, ignore_class_not_found)
get_target(compose, w, d, init, name, ignore, b) ==
    Index(get_targets(compose, w, d, init, <<name>>, ignore, b), name)

\* .parameters of the record get_target returned
ParametersOf(r) ==
    IF r.status # "ok" THEN r
    ELSE [r EXCEPT !.ret = RetParameters(r.ret.dict[1].parameters)]

\* Inventory.get_parameters(target_names: str, ignore_class_not_found)
get_parameters_str(compose, w, d, init, name, ignore, b) ==
    ParametersOf(get_target(compose, w, d, init, name, ignore, b))

\* the comprehension of line 125 iterates the keys of the dict returned and
\* unpacks each key, a string, into (name, target)
Unpack(r) ==
    IF r.status # "ok" THEN r
    ELSE IF r.ret.dict = <<>> THEN [r EXCEPT !.ret = RetDict(<<>>)]
    ELSE IF StrLen(r.ret.dict[1].name) # 2
         THEN [r EXCEPT !.status = "ValueError", !.ret = RetNone]
         ELSE [r EXCEPT !.status = "AttributeError", !.ret = RetNone]

\* Inventory.get_parameters(target_names: list, ignore_class_not_found):
\* ignore_class_not_found is not passed on
get_parameters_list(compose, w, d, init, names, ignore, b) ==
    Unpack(get_targets(compose, w, d, init, names, FALSE, b))

\* Inventory.__getitem__(key): self.inventory[key], and inventory is self.targets
getitem(d, init, key) ==
    IF Has(d, key)
    THEN [Outcome(NoScan(d, init)) EXCEPT !.ret = RetTarget(Get(d, key))]
    ELSE [Outcome(NoScan(d, init)) EXCEPT !.status = "KeyError", !.ret = RetNone]

----------------------------------------------------------------------------
(* The state machine: one Inventory object and its single-threaded caller *)

\* what `last` records of a call: the call, and what it did
Call(op, names, ignore, r) ==
    [op |-> op, names |-> names, ignore |-> ignore,
     scanned |-> r.scanned, assigned |-> r.assigned,
     status |-> r.status, conflict |-> r.conflict,
     missing |-> r.missing, resolved |-> r.resolved, pre |-> r.pre,
     selected |-> r.selected, batches |-> r.batches, ret |-> r.ret]

NoCall ==
    [op |-> "none", names |-> <<>>, ignore |-> FALSE,
     scanned |-> FALSE, assigned |-> <<>>,
     status |-> "ok", conflict |-> NoConflict,
     missing |-> {}, resolved |-> FALSE, pre |-> <<>>,
     selected |-> <<>>, batches |-> <<>>, ret |-> RetNone]

\* the names a caller asks for: those the tree's files derive, and one no
\* file derives
RequestNames == {NameOf(compose_target_name, p) : p \in FilesOfWalk(walk)} \cup {<<"missing">>}

RequestLists == SeqsUpTo(RequestNames, MaxNames)

\* a concurrent caller that is in no call
NotCalling ==
    [pc |-> "idle", op |-> "none", names |-> <<>>, ignore |-> FALSE,
     dir |-> 0, file |-> 0, batch |-> <<>>, status |-> "ok", conflict |-> NoConflict]

Init ==
    /\ walk \in Walks
    /\ compose_target_name \in BOOLEAN
    /\ initialised = FALSE
    /\ targets = <<>>
    /\ last = NoCall
    /\ submitted = <<>>
    /\ callers = [t \in 1..NumCallers |-> NotCalling]

\* the caller makes one call at a time, and looks at what it got before the next
Idle == last.op = "none"

\* the call op(names, ignore) was made and did r
Did(op, names, ignore, r) ==
    /\ targets' = r.targets
    /\ initialised' = r.initialised
    /\ last' = Call(op, names, ignore, r)
    /\ UNCHANGED <<walk, compose_target_name, callers>>

Does(op, names, ignore, r) ==
    /\ Did(op, names, ignore, r)
    /\ UNCHANGED submitted

Initialise ==
    /\ Idle
    /\ Does("initialise", <<>>, FALSE,
            Outcome(initialise(compose_target_name, walk, targets, initialised)))

GetTargets ==
    /\ Idle
    /\ \E names \in RequestLists, ignore \in BOOLEAN :
         \E b \in Behaviours(BatchOf(compose_target_name, walk, targets, initialised, names, ignore)) :
           Does("get_targets", names, ignore,
                get_targets(compose_target_name, walk, targets, initialised, names, ignore, b))

GetTarget ==
    /\ Idle
    /\ \E name \in RequestNames, ignore \in BOOLEAN :
         \E b \in Behaviours(BatchOf(compose_target_name, walk, targets, initialised, <<name>>, ignore)) :
           Does("get_target", <<name>>, ignore,
                get_target(compose_target_name, walk, targets, initialised, name, ignore, b))

GetParametersStr ==
    /\ Idle
    /\ \E name \in RequestNames, ignore \in BOOLEAN :
         \E b \in Behaviours(BatchOf(compose_target_name, walk, targets, initialised, <<name>>, ignore)) :
           Does("get_parameters_str", <<name>>, ignore,
                get_parameters_str(compose_target_name, walk, targets, initialised, name, ignore, b))

GetParametersList ==
    /\ Idle
    /\ \E names \in RequestLists, ignore \in BOOLEAN :
         \E b \in Behaviours(BatchOf(compose_target_name, walk, targets, initialised, names, FALSE)) :
           Does("get_parameters_list", names, ignore,
                get_parameters_list(compose_target_name, walk, targets, initialised, names, ignore, b))

GetItem ==
    /\ Idle
    /\ \E key \in RequestNames :
         Does("getitem", <<key>>, FALSE, getitem(targets, initialised, key))

\* Inventory.migrate(): pass
Migrate ==
    /\ Idle
    /\ last' = [NoCall EXCEPT !.op = "migrate"]
    /\ UNCHANGED <<walk, compose_target_name, initialised, targets, submitted, callers>>

\* the call has returned or raised, and the caller goes on
Return ==
    /\ ~Idle
    /\ last' = NoCall
    /\ UNCHANGED <<walk, compose_target_name, initialised, targets, submitted, callers>>

Next ==
    \/ Initialise
    \/ GetTargets
    \/ GetTarget
    \/ GetParametersStr
    \/ GetParametersList
    \/ GetItem
    \/ Migrate
    \/ Return

Spec == Init /\ [][Next]_vars

----------------------------------------------------------------------------
(* The lifetime of a record: the same caller, with every record that is    *)
(* handed to render_targets counted                                        *)

\* how often the record named n has been handed to render_targets
Submissions(s, n) == IF n \in DOMAIN s THEN s[n] ELSE 0

\* the places of the name n in the lists render_targets was called with
Handed(batches, n) ==
    {ki \in (DOMAIN batches) \X (1..(MaxFiles + 1)) :
        ki[2] \in DOMAIN batches[ki[1]] /\ batches[ki[1]][ki[2]] = n}

\* the counts after a call that called render_targets with each of batches
Tally(s, batches) ==
    [n \in DOMAIN s \cup UNION {Range(batches[k]) : k \in DOMAIN batches} |->
        Submissions(s, n) + Cardinality(Handed(batches, n))]

CountedGetTargets ==
    /\ Idle
    /\ \E names \in RequestLists, ignore \in BOOLEAN :
         \E b \in Behaviours(BatchOf(compose_target_name, walk, targets, initialised, names, ignore)) :
           Did("get_targets", names, ignore,
               get_targets(compose_target_name, walk, targets, initialised, names, ignore, b))
    /\ submitted' = Tally(submitted, last'.batches)
    /\ \A n \in DOMAIN submitted' : submitted'[n] <= MaxSubmissions

NextLifetime ==
    \/ Initialise
    \/ CountedGetTargets
    \/ Return

SpecLifetime == Init /\ [][NextLifetime]_vars

----------------------------------------------------------------------------
(* Concurrent callers: NumCallers threads call initialise and get_targets  *)
(* on the one Inventory object.  The code takes no lock, so a thread may   *)
(* be preempted between any two of the steps below; each step reads and    *)
(* writes self.targets and self.initialised as the lines it models do.     *)

Callers == 1..NumCallers

\* the caller t goes on as c, and nothing of the object changes
Goes(t, c) ==
    /\ callers' = [callers EXCEPT ![t] = c]
    /\ UNCHANGED <<walk, compose_target_name, initialised, targets, last, submitted>>

\* initialise() has returned: to the caller, or into get_targets at line 96
AfterInitialise(c) ==
    IF c.op = "initialise" THEN [c EXCEPT !.pc = "done", !.dir = 0, !.file = 0]
    ELSE [c EXCEPT !.pc = "resolve", !.dir = 0, !.file = 0]

\* the target_names a concurrent caller passes: none, or one name
ConcRequestLists == {<<>>} \cup {<<n>> : n \in RequestNames}

\* a thread calls initialise()
ConcCallInitialise(t) ==
    /\ callers[t].pc = "idle"
    /\ Goes(t, [NotCalling EXCEPT !.pc = "init_check", !.op = "initialise"])

\* a thread calls get_targets(names, ignore)
ConcCallGetTargets(t) ==
    /\ callers[t].pc = "idle"
    /\ \E names \in ConcRequestLists, ignore \in BOOLEAN :
         Goes(t, [NotCalling EXCEPT !.pc = "discover", !.op = "get_targets",
                                    !.names = names, !.ignore = ignore])

\* line 93: if not self.targets: self.initialise()
ConcDiscover(t) ==
    /\ callers[t].pc = "discover"
    /\ Goes(t, [callers[t] EXCEPT !.pc = IF targets = <<>> THEN "init_check" ELSE "resolve"])

\* line 55: if not self.initialised: the walk starts
ConcInitCheck(t) ==
    /\ callers[t].pc = "init_check"
    /\ Goes(t, IF ~initialised
               THEN [callers[t] EXCEPT !.pc = "scan", !.dir = 1, !.file = 1]
               ELSE AfterInitialise(callers[t]))

\* lines 71-79 for the record target: the duplicate check and the assignment
ConcRegister(t, target) ==
    IF Conflicting(targets, target.name)
    THEN /\ callers' = [callers EXCEPT ![t] =
                [@ EXCEPT !.pc = "done", !.status = "InventoryError",
                          !.names = <<>>, !.ignore = FALSE, !.dir = 0, !.file = 0,
                          !.conflict = [name |-> target.name, path |-> target.path,
                                        other |-> Get(targets, target.name).path]]]
         /\ UNCHANGED targets
    ELSE /\ targets' = DictSet(targets, target)
         /\ callers' = [callers EXCEPT ![t] = [@ EXCEPT !.file = @ + 1]]

\* lines 58-79 for the file at path
ConcScanPath(t, path) ==
    IF ~Accepted(path)
    THEN /\ callers' = [callers EXCEPT ![t] = [@ EXCEPT !.file = @ + 1]]
         /\ UNCHANGED targets
    ELSE ConcRegister(t, InventoryTarget(NameOf(compose_target_name, path), path))

\* one pass of the loop over files (lines 58-79)
ConcScanFile(t) ==
    /\ callers[t].pc = "scan"
    /\ callers[t].dir <= Len(walk)
    /\ callers[t].file <= Len(walk[callers[t].dir].files)
    /\ ConcScanPath(t, relpath(walk[callers[t].dir].root,
                               walk[callers[t].dir].files[callers[t].file]))
    /\ UNCHANGED <<walk, compose_target_name, initialised, last, submitted>>

\* line 80: the files of a directory are done, self.initialised = True
ConcEndDir(t) ==
    /\ callers[t].pc = "scan"
    /\ callers[t].dir <= Len(walk)
    /\ callers[t].file > Len(walk[callers[t].dir].files)
    /\ initialised' = TRUE
    /\ callers' = [callers EXCEPT ![t] = [@ EXCEPT !.dir = @ + 1, !.file = 1]]
    /\ UNCHANGED <<walk, compose_target_name, targets, last, submitted>>

\* line 81: os.walk is exhausted, return self.initialised
ConcEndWalk(t) ==
    /\ callers[t].pc = "scan"
    /\ callers[t].dir > Len(walk)
    /\ Goes(t, AfterInitialise(callers[t]))

\* lines 112-113: render_targets is called when targets_to_render is not empty
ConcDispatch(c, batch) ==
    IF batch = <<>> THEN [c EXCEPT !.pc = "done", !.names = <<>>, !.ignore = FALSE]
    ELSE [c EXCEPT !.pc = "render", !.batch = batch, !.names = <<>>, !.ignore = FALSE]

\* lines 96-110 with res the name resolution against the registry d
ConcSelect(c, d, res) ==
    IF res.raised
    THEN [c EXCEPT !.pc = "done", !.status = "InventoryError", !.names = <<>>, !.ignore = FALSE]
    ELSE ConcDispatch(c, ToRender(d, res.selected))

\* lines 96-113: the names are resolved, the unrendered records are
\* collected, and render_targets is entered if there are any
ConcResolve(t) ==
    /\ callers[t].pc = "resolve"
    /\ Goes(t, ConcSelect(callers[t], targets,
                          Resolve(targets, callers[t].names, callers[t].ignore)))

\* what render_targets did when it returns or raises
ConcRendered(t, rnd) ==
    /\ targets' = rnd.targets
    /\ callers' = [callers EXCEPT ![t] =
            [@ EXCEPT !.pc = "done", !.batch = <<>>,
                      !.status = IF rnd.raised THEN "RenderError" ELSE "ok"]]

\* line 113: the render_targets call a thread is in ends
ConcRender(t) ==
    /\ callers[t].pc = "render"
    /\ \E b \in Behaviours(callers[t].batch) :
         ConcRendered(t, render_targets(targets, callers[t].batch, b))
    /\ UNCHANGED <<walk, compose_target_name, initialised, last, submitted>>

\* the call has returned or raised, and the thread goes on
ConcReturn(t) ==
    /\ callers[t].pc = "done"
    /\ Goes(t, NotCalling)

NextConc ==
    \E t \in Callers :
        \/ ConcCallInitialise(t)
        \/ ConcCallGetTargets(t)
        \/ ConcDiscover(t)
        \/ ConcInitCheck(t)
        \/ ConcScanFile(t)
        \/ ConcEndDir(t)
        \/ ConcEndWalk(t)
        \/ ConcResolve(t)
        \/ ConcRender(t)
        \/ ConcReturn(t)

SpecConc == Init /\ [][NextConc]_vars

----------------------------------------------------------------------------
(* Properties *)

\* two accepted files with the same basename in different directories
SameBasenamePairs ==
    {pq \in AcceptedFiles(walk) \X AcceptedFiles(walk) :
        BaseOf(pq[1]) = BaseOf(pq[2]) /\ DirOf(pq[1]) # DirOf(pq[2])}

\* the record of the registry d that came from the file at path p, if any
RegisteredFrom(d, p) == {i \in DOMAIN d : d[i].path = p}

\* C1: an initialise() that scans fails with an InventoryError naming the new
\* file's path and the registered record's path as soon as it reaches an
\* accepted file whose name is already a key, so a scan that returns has
\* registered every accepted file under its own path; and in compact mode two
\* accepted files with the same basename in different directories make the
\* scan fail this way.
C1_CollisionFailsNamingBothPaths ==
    (last.op = "initialise" /\ last.scanned) =>
        /\ last.status \in {"ok", "InventoryError"}
        /\ last.status = "InventoryError" =>
              /\ last.conflict.path \in AcceptedFiles(walk)
              /\ NameOf(compose_target_name, last.conflict.path) = last.conflict.name
              /\ Has(targets, last.conflict.name)
              /\ Get(targets, last.conflict.name).path = last.conflict.other
              /\ last.conflict.other \in AcceptedFiles(walk)
        /\ last.status = "ok" =>
              /\ last.conflict = NoConflict
              /\ \A p \in AcceptedFiles(walk) :
                    \E i \in DOMAIN targets :
                        targets[i].path = p /\ targets[i].name = NameOf(compose_target_name, p)
        /\ (~compose_target_name /\ SameBasenamePairs # {}) => last.status = "InventoryError"

C1_Witness ==
    /\ last.op = "initialise" /\ last.scanned /\ ~compose_target_name
    /\ last.status = "InventoryError"
    /\ <<last.conflict.path, last.conflict.other>> \in SameBasenamePairs

\* C2: in every state where initialised is true, every accepted file under
\* the targets root is registered, and the scan that set the flag raised no
\* collision error.
C2_FlagOnlyAfterFullScan ==
    initialised =>
        /\ \A p \in AcceptedFiles(walk) : RegisteredFrom(targets, p) # {}
        /\ ~(last.scanned /\ last.status = "InventoryError" /\ last.conflict # NoConflict)

\* C3: no call rebinds a name: a name bound to a record with a path before a
\* call is bound to a record with that path after it, and every assignment
\* self.targets[name] = target a scan makes is to a name that no earlier
\* assignment of the scan and no earlier call had bound, so that it is still
\* in force when the call ends.
C3_BindingNeverOverwritten ==
    [][/\ \A i \in DOMAIN targets :
             /\ Has(targets', targets[i].name)
             /\ Get(targets', targets[i].name).path = targets[i].path
       /\ \A k \in DOMAIN last'.assigned :
             /\ ~Has(targets, last'.assigned[k].name)
             /\ \A j \in 1..(k - 1) : last'.assigned[j].name # last'.assigned[k].name
             /\ Has(targets', last'.assigned[k].name)
             /\ Get(targets', last'.assigned[k].name).path = last'.assigned[k].path]_vars

\* a retried initialise() met the file it had registered before, and the
\* binding is as it was
C3_Witness ==
    /\ last.op = "initialise" /\ last.scanned /\ last.status = "InventoryError"
    /\ last.conflict.path = last.conflict.other
    /\ Get(targets, last.conflict.name).path = last.conflict.other

\* C4, as claimed: in composed mode any two accepted files with the same
\* basename in different directories are both registered by a scanning
\* initialise(), under two distinct names, and no collision is raised for them.
C4_ComposedAlwaysDistinct ==
    (last.op = "initialise" /\ last.scanned /\ compose_target_name) =>
        \A pq \in SameBasenamePairs :
            /\ \E i, j \in DOMAIN targets :
                  /\ targets[i].path = pq[1] /\ targets[j].path = pq[2]
                  /\ targets[i].name # targets[j].name
            /\ {last.conflict.path, last.conflict.other} # {pq[1], pq[2]}

\* the directory part of a path as the composed name spells it: separators
\* replaced by '.'
JoinedDir(path) == Flatten(DirOf(path))

\* C4, amended: in composed mode two accepted files with the same basename in
\* different directories whose directory paths still differ once the
\* separators are replaced by '.' never collide with each other, and a scan
\* that completes has registered both, each under its relative path with the
\* extension stripped and the separators replaced by '.', two distinct names.
C4_ComposedDistinctUnlessDirsJoinEqual ==
    (last.op = "initialise" /\ last.scanned /\ compose_target_name) =>
        \A pq \in SameBasenamePairs :
            JoinedDir(pq[1]) # JoinedDir(pq[2]) =>
                /\ {last.conflict.path, last.conflict.other} # {pq[1], pq[2]}
                /\ last.status = "ok" =>
                      \E i, j \in DOMAIN targets :
                          /\ targets[i].path = pq[1] /\ targets[j].path = pq[2]
                          /\ targets[i].name = JoinedDir(pq[1]) \o Front(BaseOf(pq[1]))
                          /\ targets[j].name = JoinedDir(pq[2]) \o Front(BaseOf(pq[2]))
                          /\ targets[i].name # targets[j].name

C4_Witness ==
    /\ last.op = "initialise" /\ last.scanned /\ compose_target_name
    /\ last.status = "ok"
    /\ \E pq \in SameBasenamePairs :
          /\ JoinedDir(pq[1]) # JoinedDir(pq[2])
          /\ RegisteredFrom(targets, pq[1]) # {} /\ RegisteredFrom(targets, pq[2]) # {}

\* C5: an initialise() call made when initialised is true does not scan,
\* returns true and leaves the registry as it was; an initialise() call on a
\* registry that an earlier discovery filled leaves its key set as it was;
\* and no call removes a name from the registry.
C5_InitialiseIdempotent ==
    [][/\ Keys(targets) \subseteq Keys(targets')
       /\ (initialised /\ last'.op = "initialise") =>
             /\ ~last'.scanned
             /\ last'.status = "ok" /\ last'.ret = RetBool(TRUE)
             /\ targets' = targets /\ initialised'
       /\ (targets # <<>> /\ last'.op = "initialise") => Keys(targets') = Keys(targets)]_vars

C5_Witness ==
    /\ last.op = "initialise" /\ ~last.scanned /\ last.ret = RetBool(TRUE)
    /\ initialised /\ Len(targets) >= 2

\* C6: a get_targets call with ignore false and a non-empty names list that
\* reaches name resolution with some requested name absent from the registry
\* fails with an InventoryError whose set is exactly the requested names
\* absent from the registry.
C6_MissingNamesEnumerated ==
    (/\ last.op = "get_targets" /\ ~last.ignore /\ last.names # <<>>
     /\ last.resolved
     /\ \E n \in Range(last.names) : ~Has(last.pre, n)) =>
        /\ last.status = "InventoryError"
        /\ last.conflict = NoConflict
        /\ last.missing = {n \in Range(last.names) : ~Has(last.pre, n)}
        /\ \A n \in last.missing : ~Has(targets, n)

C6_Witness ==
    /\ last.op = "get_targets" /\ ~last.ignore /\ last.status = "InventoryError"
    /\ last.missing # {}
    /\ \E n \in Range(last.names) : Has(last.pre, n)

\* C7: a get_targets call with ignore true and some requested names absent
\* submits to render_targets every requested record that is present and whose
\* parameters are empty.
C7_IgnoreRendersPresentSubset ==
    (/\ last.op = "get_targets" /\ last.ignore /\ last.resolved
     /\ \E n \in Range(last.names) : ~Has(last.pre, n)) =>
        \A n \in Range(last.names) :
            (Has(last.pre, n) /\ Unrendered(Get(last.pre, n))) =>
                \E k \in DOMAIN last.batches : n \in Range(last.batches[k])

\* C8: render_targets is never handed a record whose parameters are non-empty.
C8_NeverRendersRendered ==
    \A k \in DOMAIN last.batches :
        \A n \in Range(last.batches[k]) : Unrendered(Get(last.pre, n))

\* a call selected a rendered and an unrendered record, and rendered only
\* the unrendered one
C8_Witness ==
    /\ last.batches # <<>>
    /\ \E n \in Range(last.selected) :
          /\ ~Unrendered(Get(last.pre, n))
          /\ \A k \in DOMAIN last.batches : n \notin Range(last.batches[k])

\* C9: a get_targets call that returns, returns the whole registry whatever
\* names it was given; and with no names on an empty registry it returns one
\* entry per accepted file of the tree.
C9_ReturnsWholeRegistry ==
    (last.op = "get_targets" /\ last.status = "ok") =>
        /\ last.ret.kind = "dict"
        /\ last.ret.dict = targets
        /\ Keys(last.ret.dict) = Keys(last.pre)
        /\ (last.names = <<>> /\ (last.scanned \/ targets = <<>>)) =>
              /\ Len(last.ret.dict) = Cardinality(AcceptedFiles(walk))
              /\ \A p \in AcceptedFiles(walk) : RegisteredFrom(last.ret.dict, p) # {}

C9_Witness ==
    /\ last.op = "get_targets" /\ last.status = "ok" /\ last.scanned
    /\ last.names # <<>>
    /\ Len(last.ret.dict) > Cardinality(Range(last.names))

\* C10: get_parameters with a list of names that are all in the registry
\* returns a mapping whose keys are exactly those names, each mapped to the
\* parameters of its record.
C10_ListFormMapsRequestedNames ==
    (/\ last.op = "get_parameters_list" /\ last.resolved
     /\ last.names # <<>>
     /\ \A n \in Range(last.names) : Has(last.pre, n)
     /\ last.status # "RenderError") =>
        /\ last.status = "ok"
        /\ last.ret.kind = "dict"
        /\ {last.ret.dict[i].name : i \in DOMAIN last.ret.dict} = Range(last.names)
        /\ \A i \in DOMAIN last.ret.dict :
              last.ret.dict[i].parameters = Get(targets, last.ret.dict[i].name).parameters

\* the call that ended as r ended as the observed call did, in the same state
SameOutcome(r, call, d, init) ==
    /\ (r.status = "ok") = (call.status = "ok")
    /\ r.ret = call.ret
    /\ r.targets = d
    /\ r.initialised = init

\* C11: inventory[name] does what get_targets([name])[name] does: from every
\* state it ends the same way (the same record, or a failure) and leaves the
\* same state, discovery and rendering included, for some behaviour of the
\* backend.
C11_GetItemIsGetTargetsIndexed ==
    [][last'.op = "getitem" =>
          \E b \in Behaviours(BatchOf(compose_target_name, walk, targets, initialised,
                                      last'.names, FALSE)) :
              SameOutcome(get_target(compose_target_name, walk, targets, initialised,
                                     last'.names[1], FALSE, b),
                          last', targets', initialised')]_vars

\* C12: get_target fails whenever the name is absent from the registry after
\* discovery, with ignore false and with ignore true; when it returns, it
\* returns the record registered under the name.
C12_GetTargetFailsOnAbsent ==
    last.op = "get_target" =>
        /\ ~Has(targets, last.names[1]) => last.status \in {"InventoryError", "KeyError"}
        /\ (~Has(targets, last.names[1]) /\ last.resolved) =>
              last.status = (IF last.ignore THEN "KeyError" ELSE "InventoryError")
        /\ last.status # "ok" => last.ret = RetNone
        /\ last.status = "ok" =>
              /\ Has(targets, last.names[1])
              /\ last.ret = RetTarget(Get(targets, last.names[1]))

C12_Witness ==
    /\ last.op = "get_target" /\ last.ignore /\ last.status = "KeyError"
    /\ targets # <<>> /\ ~Has(targets, last.names[1])

\* the extension of a path, read off the path itself
HasYamlExtension(path) ==
    /\ Len(Last(path)) >= 2
    /\ Last(Last(path)) \in {"yml", "yaml"}

\* C13: every record of the registry has a path ending in .yml or .yaml; a
\* file with another extension is skipped without an error being raised for
\* it and is never registered, in compact and in composed mode.
C13_OnlyYamlRegistered ==
    /\ \A i \in DOMAIN targets : HasYamlExtension(targets[i].path)
    /\ \A p \in FilesOfWalk(walk) :
          ~HasYamlExtension(p) =>
              /\ RegisteredFrom(targets, p) = {}
              /\ last.conflict.path # p /\ last.conflict.other # p
    /\ \A k \in DOMAIN last.assigned : HasYamlExtension(last.assigned[k].path)
    /\ (last.scanned /\ AcceptedFiles(walk) = {}) =>
          (last.conflict = NoConflict /\ targets = <<>>)

\* a scan went past a file with another extension and registered the rest
C13_Witness ==
    /\ last.op = "initialise" /\ last.scanned /\ last.status = "ok"
    /\ targets # <<>>
    /\ \E p \in FilesOfWalk(walk) : ~HasYamlExtension(p) /\ DirOf(p) = <<>>

\* the records of the registry `pre` a call on names has to render: those of
\* the whole registry for no names, of the requested names otherwise, whose
\* parameters are empty
UnrenderedOfRequested(pre, names) ==
    {n \in (IF names = <<>> THEN Keys(pre) ELSE Range(names) \cap Keys(pre)) :
        Get(pre, n).parameters = {}}

\* the sequence has each of its elements once
NoRepeats(batch) == \A i, j \in DOMAIN batch : batch[i] = batch[j] => i = j

C15_SubmittedOnceInLifetime ==
    \A n \in DOMAIN submitted : Has(targets, n) /\ submitted[n] <= 1

\* C16: at no time are two callers inside render_targets with the same
\* record in their batches.
C16_OneRenderPerNameInProgress ==
    \A t, u \in Callers :
        (t # u /\ callers[t].pc = "render" /\ callers[u].pc = "render") =>
            Range(callers[t].batch) \cap Range(callers[u].batch) = {}

\* no two accepted files of the tree derive the same name
CollisionFree ==
    \A p, q \in AcceptedFiles(walk) :
        NameOf(compose_target_name, p) = NameOf(compose_target_name, q) => p = q

\* C17: over a collision-free tree no concurrent caller of initialise fails
\* with a collision error (which could only be one between a file and
\* itself), and no file is registered twice.
C17_ConcurrentDiscoveryPopulatesOnce ==
    CollisionFree =>
        /\ \A t \in Callers : callers[t].conflict = NoConflict
        /\ \A i, j \in DOMAIN targets : targets[i].path = targets[j].path => i = j

\* C18: a get_targets call that fails with the missing-names error has not
\* called render_targets, and leaves every record of the registry as it was
\* before the names were resolved.
C18_MissingNamesFailureRendersNothing ==
    (last.op = "get_targets" /\ last.status = "InventoryError" /\ last.missing # {}) =>
        /\ last.batches = <<>>
        /\ targets = last.pre
        /\ last.ret = RetNone

\* the failing call asked for a missing name and for a registered record
\* that is still unrendered
C18_Witness ==
    /\ last.op = "get_targets" /\ last.status = "InventoryError" /\ last.missing # {}
    /\ \E n \in Range(last.names) : Has(targets, n) /\ Unrendered(Get(targets, n))

LookupOps == {"get_targets", "get_target", "get_parameters_str", "get_parameters_list"}

\* C19: a discovery that fails keeps what it registered before the
\* collision, and every lookup made while the registry is not empty resolves
\* against the registry as it is, without a scan, whatever the initialised
\* flag says.
C19_FailedDiscoveryKeptAndNotRepeated ==
    [][/\ (last'.scanned /\ last'.conflict # NoConflict) =>
              /\ IsPrefix(targets, targets')
              /\ \A k \in DOMAIN last'.assigned :
                    /\ Has(targets', last'.assigned[k].name)
                    /\ Get(targets', last'.assigned[k].name).path = last'.assigned[k].path
       /\ (targets # <<>> /\ last'.op \in LookupOps) =>
              /\ ~last'.scanned
              /\ last'.assigned = <<>>
              /\ last'.conflict = NoConflict
              /\ initialised' = initialised
              /\ last'.resolved
              /\ last'.pre = targets
              /\ KeySeq(targets') = KeySeq(targets)]_vars

\* a lookup resolved against the part of the tree a failed discovery had
\* registered, the flag still not set
C19_Witness ==
    /\ last.op = "get_targets" /\ last.resolved /\ ~last.scanned
    /\ ~initialised
    /\ targets # <<>>
    /\ Len(targets) < Cardinality(AcceptedFiles(walk))

====
